---------------------------- MODULE Spec2Model ----------------------------
(***************************************************************************)
(* A model of requests-service: the HttpService / HttpClient wrappers      *)
(* (services.py, client.py), their factories, the SessionCache             *)
(* (sessions.py, client.py) and JwtAuth (auth.py).                         *)
(*                                                                         *)
(* Strings are sequences of one-character strings.  Positions are Python   *)
(* positions: they start at 0, and str.find answers -1 for "not found".    *)
(***************************************************************************)
EXTENDS Integers, Sequences, FiniteSets, TLC

VARIABLES
    \* ---- HttpService._build_url and the url_root setter, step by step
    value,        \* the url_root argument of the constructor
    path,         \* the path argument of _build_url
    path_params,  \* the **path_params mapping of _build_url
    url_root,     \* self._url_root
    url,          \* the local url of _build_url
    start,        \* the local start of _build_url
    upc,          \* where the call is
    \* ---- the factories, the session caches, the clients and their requests
    svcCache,     \* sessions.SessionCache.__sessions (used by services.py)
    cliCache,     \* client.SessionCache.__sessions   (used by client.py)
    sessions,     \* every requests.Session made so far, by identity (index)
    clients,      \* every HttpService / HttpClient returned so far
    last,         \* what the last operation did
    \* ---- two threads inside the factory method
    tpc,          \* where each thread is inside make_service / make_client
    tcls,         \* the class each thread called the factory on
    tsession,     \* each thread's local variable session
    tmissed,      \* whether the thread's cache lookup found nothing
    tclient,      \* the client the thread's call returned (0: none yet)
    stores        \* the SessionCache.set calls in the order they ran

urlVars  == <<value, path, path_params, url_root, url, start, upc>>
mainVars == <<svcCache, cliCache, sessions, clients, last>>
thrVars  == <<tpc, tcls, tsession, tmissed, tclient, stores>>
vars     == <<urlVars, mainVars, thrVars>>

---------------------------------------------------------------------------
(* Bounds of the model *)

MaxPathLen == 3
MaxUrlLen  == 16
MaxClients == 2

---------------------------------------------------------------------------
(* Python values *)

None == [type |-> "NoneType"]

Str(s) == [type |-> "str", val |-> s]

\* str(x), for x None or a str
PyStr(x) == IF x = None THEN <<"N", "o", "n", "e">> ELSE x.val

\* d.get(k)
DictGet(d, k) == IF k \in DOMAIN d THEN d[k] ELSE None

\* s.find(c, from) for a one-character c
RECURSIVE Find(_, _, _)
Find(s, c, from) ==
    IF from >= Len(s) THEN -1
    ELSE IF s[from + 1] = c THEN from
    ELSE Find(s, c, from + 1)

\* s[i:j] for 0 <= i and 0 <= j
Slice(s, i, j) ==
    LET hi == IF j > Len(s) THEN Len(s) ELSE j
    IN  IF hi <= i THEN <<>> ELSE SubSeq(s, i + 1, hi)

\* s[1:-1]
Inner(s) == IF Len(s) < 2 THEN <<>> ELSE Slice(s, 1, Len(s) - 1)

\* whether s has old at position i
HasAt(s, old, i) ==
    /\ i + Len(old) <= Len(s)
    /\ \A k \in 1..Len(old) : s[i + k] = old[k]

\* s.replace('', new): new before every character and at the end
RECURSIVE Interleave(_, _)
Interleave(s, new) ==
    IF s = <<>> THEN new
    ELSE new \o <<Head(s)>> \o Interleave(Tail(s), new)

\* s.replace(old, new) for a non-empty old: every occurrence, left to right
RECURSIVE ReplaceFrom(_, _, _, _)
ReplaceFrom(s, old, new, i) ==
    IF i >= Len(s) THEN <<>>
    ELSE IF HasAt(s, old, i) THEN new \o ReplaceFrom(s, old, new, i + Len(old))
    ELSE <<s[i + 1]>> \o ReplaceFrom(s, old, new, i + 1)

\* s.replace(old, new)
Replace(s, old, new) ==
    IF old = <<>> THEN Interleave(s, new) ELSE ReplaceFrom(s, old, new, 0)

---------------------------------------------------------------------------
(* HttpService.url_root (setter) and HttpService._build_url;               *)
(* HttpClient's are the same text.                                         *)

\* value[-1] raises IndexError on the empty string
RootRaises(v) == v = <<>>

\* self._url_root = value if value[-1] == '/' else '%s/' % value
NormalisedRoot(v) == IF v[Len(v)] = "/" THEN v ELSE v \o <<"/">>

\* lines 44-46: the leading slash is removed
Stripped(p) == IF p # <<>> /\ p[1] = "/" THEN Tail(p) ELSE p

\* line 48 reads path[-1] of the stripped path, inside "if path:" of the
\* path as given
PathRaises(p) == p # <<>> /\ Stripped(p) = <<>>

\* lines 44-49
NormalisedPath(p) ==
    IF p = <<>> THEN p
    ELSE LET q == Stripped(p)
         IN  IF q[Len(q)] # "/" /\ Find(q, "?", 0) = -1
             THEN q \o <<"/">> ELSE q

\* lines 55-56: end and replace
EndOf(u, s)       == Find(u, "}", s)
Placeholder(u, s) == Slice(u, s, EndOf(u, s) + 1)

\* line 57: param = str(path_params.get(replace[1:-1]))
ParamOf(u, s, pp) == PyStr(DictGet(pp, Inner(Placeholder(u, s))))

\* line 58: url.replace(replace, param if param else '')
Substituted(u, s, pp) ==
    LET param == ParamOf(u, s, pp)
    IN  Replace(u, Placeholder(u, s), IF param # <<>> THEN param ELSE <<>>)

\* ---- the inputs
RECURSIVE SeqsUpTo(_, _)
SeqsUpTo(S, n) ==
    IF n = 0 THEN {<<>>}
    ELSE LET shorter == SeqsUpTo(S, n - 1)
         IN  shorter \cup {Append(s, c) : s \in shorter, c \in S}

PathAlphabet == {"/", "{", "}", "?", "a"}
Paths  == SeqsUpTo(PathAlphabet, MaxPathLen)
Roots  == {<<>>, <<"h">>, <<"h", "/">>, <<"{">>}
Names  == {<<>>, <<"a">>}
Values == {None, Str(<<>>), Str(<<"7">>), Str(<<"{", "a", "}">>)}
ParamMaps == UNION {[D -> Values] : D \in SUBSET Names}

UrlInit ==
    /\ value \in Roots
    /\ path \in Paths
    /\ path_params \in ParamMaps
    /\ url_root = None
    /\ url = <<>>
    /\ start = -1
    /\ upc = "construct"

\* HttpService.__init__: self.url_root = url_root
SetUrlRoot ==
    /\ upc = "construct"
    /\ IF RootRaises(value)
       THEN upc' = "root_IndexError" /\ UNCHANGED url_root
       ELSE upc' = "build" /\ url_root' = Str(NormalisedRoot(value))
    /\ UNCHANGED <<value, path, path_params, url, start, mainVars, thrVars>>

\* _build_url, lines 44-52
JoinPath ==
    /\ upc = "build"
    /\ IF PathRaises(path)
       THEN upc' = "path_IndexError" /\ UNCHANGED <<url, start>>
       ELSE /\ upc' = "while"
            /\ url' = url_root.val \o NormalisedPath(path)
            /\ start' = Find(url', "{", 0)
    /\ UNCHANGED <<value, path, path_params, url_root, mainVars, thrVars>>

\* line 54: while start >= 0; line 61: return url
LoopTest ==
    /\ upc = "while"
    /\ upc' = IF start >= 0 THEN "body" ELSE "return"
    /\ UNCHANGED <<value, path, path_params, url_root, url, start, mainVars, thrVars>>

\* lines 55-59; a url longer than MaxUrlLen stands for a url that keeps
\* growing until the allocation fails
LoopBody ==
    /\ upc = "body"
    /\ LET next == Substituted(url, start, path_params)
       IN  IF Len(next) > MaxUrlLen
           THEN upc' = "MemoryError" /\ UNCHANGED <<url, start>>
           ELSE /\ upc' = "while"
                /\ url' = next
                /\ start' = Find(next, "{", 0)
    /\ UNCHANGED <<value, path, path_params, url_root, mainVars, thrVars>>

UrlNext ==
    \/ SetUrlRoot
    \/ JoinPath
    \/ LoopTest
    \/ LoopBody


---------------------------------------------------------------------------
(* _build_url as one call, for make_request *)

MaxIter == 4

\* lines 52-61, the loop run to its end: "return" with the url, or
\* "no_return" when it is still running after MaxIter rounds
RECURSIVE SubstituteAll(_, _, _)
SubstituteAll(u, pp, fuel) ==
    LET s == Find(u, "{", 0)
    IN  IF s < 0 THEN [kind |-> "return", url |-> u]
        ELSE IF fuel = 0 \/ Len(u) > MaxUrlLen THEN [kind |-> "no_return", url |-> u]
        ELSE SubstituteAll(Substituted(u, s, pp), pp, fuel - 1)

\* self._build_url(path, **path_params)
BuildUrl(root, p, pp) ==
    IF PathRaises(p) THEN [kind |-> "IndexError", url |-> <<>>]
    ELSE SubstituteAll(root \o NormalisedPath(p), pp, MaxIter)

---------------------------------------------------------------------------
(* More Python values *)

PyInt(n) == [type |-> "int", val |-> n]

PyTuple(t) == [type |-> "tuple", val |-> t]

\* an exception on its way up
Raised(e) == [type |-> "raise", exc |-> e]

EmptyDict == [k \in {} |-> None]

\* bool(x) for None, an int, a str, a tuple or an object
Truthy(x) ==
    /\ x # None
    /\ ~(x.type = "int" /\ x.val = 0)
    /\ ~(x.type \in {"str", "tuple"} /\ x.val = <<>>)

\* d.update(e)
DictUpdate(d, e) ==
    [k \in DOMAIN d \cup DOMAIN e |-> IF k \in DOMAIN e THEN e[k] ELSE d[k]]

---------------------------------------------------------------------------
(* SessionCache (sessions.py, and its copy in client.py) *)

\* cls.__sessions.get(name)
CacheGet(cache, name) == DictGet(cache, name)

\* a cache that keeps the session it already has for name (setdefault)
CacheSetOnce(cache, name, session) ==
    [k \in DOMAIN cache \cup {name} |-> IF k \in DOMAIN cache THEN cache[k] ELSE session]

\* cls.__sessions[name] = session
CacheSet(cache, name, session) ==
    [k \in DOMAIN cache \cup {name} |-> IF k = name THEN session ELSE cache[k]]

---------------------------------------------------------------------------
(* JwtAuth (auth.py) *)

\* the class JwtAuth
JwtAuthClass == [type |-> "type", name |-> "JwtAuth"]

\* JwtAuth(token)
JwtAuth(token) == [type |-> "JwtAuth", token |-> token]

\* JwtAuth.__call__(r): the headers of r afterwards
JwtAuthCall(auth, headers) ==
    DictUpdate(headers, [k \in {"Authorization"} |-> <<"JWT", auth.token>>])

---------------------------------------------------------------------------
(* The factory classes.  HttpServiceFactory is the base class with the     *)
(* attributes services.py gives it; the others are subclasses a program    *)
(* defines: two service factories named Api in two modules, and an         *)
(* HttpClient subclass named Api as well.                                  *)

HttpServiceFactory ==
    [id |-> "requestsservice.services.HttpServiceFactory", kind |-> "service",
     name |-> "HttpServiceFactory", service_root |-> <<>>,
     default_headers |-> EmptyDict, timeout |-> PyTuple(<<3, 10>>),
     max_retires |-> 3, auth |-> None]

Classes ==
    { HttpServiceFactory,
      [id |-> "billing.Api", kind |-> "service", name |-> "Api",
       service_root |-> <<"h">>,
       default_headers |-> [k \in {"X-Api"} |-> <<"billing">>],
       timeout |-> PyInt(5), max_retires |-> 3, auth |-> JwtAuthClass],
      [id |-> "users.Api", kind |-> "service", name |-> "Api",
       service_root |-> <<"h", "/">>,
       default_headers |-> [k \in {"X-Api"} |-> <<"users">>],
       timeout |-> PyInt(5), max_retires |-> 1, auth |-> JwtAuthClass],
      [id |-> "stock.Api", kind |-> "client", name |-> "Api",
       service_root |-> <<"h">>,
       default_headers |-> EmptyDict,
       timeout |-> PyTuple(<<3, 10>>), max_retires |-> 3, auth |-> None] }

AuthKwargs == {None, [token |-> "t1"], [token |-> "t2"]}

\* requests.request, the module's function
RequestsRequest == [type |-> "function", id |-> 0]

SessionRef(i) == [type |-> "Session", id |-> i]

\* lines 160-165: the new session, its adapters mounted and the class's
\* default headers merged into its headers
NewSession(cls) ==
    [headers |-> DictUpdate(EmptyDict, cls.default_headers),
     auth |-> None,
     adapters |-> [k \in {"http://", "https://"} |-> cls.max_retires]]

\* lines 169-172: None, the auth instance, or "TypeError" (JwtAuth() lacks
\* its token)
MakeAuth(cls, auth_kwargs) ==
    IF ~Truthy(cls.auth) THEN cls.auth
    ELSE IF auth_kwargs # None THEN JwtAuth(auth_kwargs.token)
    ELSE Raised("TypeError")

\* HttpService.__init__ / HttpClient.__init__: the new object
NewClient(made_by, root, session, auth, timeout) ==
    [made_by |-> made_by,
     url_root |-> NormalisedRoot(root),
     requestor |-> IF Truthy(session) THEN session ELSE RequestsRequest,
     auth |-> auth,
     timeout |-> timeout]

\* line 174: return HttpService(cls.service_root, session, auth)
FactoryClient(cls, session, auth) ==
    NewClient(cls.id, cls.service_root, session, auth, None)

NoCall ==
    [op |-> "none", who |-> 0, outcome |-> "none", args |-> None,
     sent |-> None, response |-> None, result |-> None]

\* whether the caller is between two calls
Ready == last = NoCall

MainInit ==
    /\ svcCache = EmptyDict
    /\ cliCache = EmptyDict
    /\ sessions = <<>>
    /\ clients = <<>>
    /\ last = NoCall

\* HttpServiceFactory.make_service / HttpClient.make_client, the whole call
Make(cls, auth_kwargs) ==
    LET cache    == IF cls.kind = "service" THEN svcCache ELSE cliCache
        found    == CacheGet(cache, cls.name)
        miss     == ~Truthy(found)
        session  == IF miss THEN SessionRef(Len(sessions) + 1) ELSE found
        cache1   == IF miss THEN CacheSet(cache, cls.name, session) ELSE cache
        auth     == MakeAuth(cls, auth_kwargs)
        outcome  == IF auth = Raised("TypeError") THEN "TypeError"
                    ELSE IF RootRaises(cls.service_root) THEN "IndexError"
                    ELSE "return"
    IN  /\ sessions' = IF miss THEN Append(sessions, NewSession(cls)) ELSE sessions
        /\ IF cls.kind = "service"
           THEN svcCache' = cache1 /\ UNCHANGED cliCache
           ELSE cliCache' = cache1 /\ UNCHANGED svcCache
        /\ clients' = IF outcome = "return"
                      THEN Append(clients, FactoryClient(cls, session, auth))
                      ELSE clients
        /\ last' = [op |-> "make", who |-> Len(clients'), outcome |-> outcome,
                    args |-> None, sent |-> None, response |-> None,
                    result |-> None]

MakeService ==
    /\ Ready
    /\ Len(clients) < MaxClients
    /\ \E cls \in Classes, kw \in AuthKwargs : Make(cls, kw)
    /\ UNCHANGED <<urlVars, thrVars>>


\* HttpService(url_root, timeout=timeout) / HttpClient(...) called directly,
\* without a session and without auth
Construct(kind, root, timeout) ==
    /\ IF RootRaises(root)
       THEN /\ UNCHANGED clients
            /\ last' = [NoCall EXCEPT !.op = "construct", !.outcome = "IndexError"]
       ELSE /\ clients' = Append(clients, NewClient(kind, root, None, None, timeout))
            /\ last' = [NoCall EXCEPT !.op = "construct", !.who = Len(clients'),
                                      !.outcome = "return"]
    /\ UNCHANGED <<svcCache, cliCache, sessions>>

Timeouts == {None, PyInt(0), PyInt(7)}

ConstructDirect ==
    /\ Ready
    /\ Len(clients) < MaxClients
    /\ \E kind \in {"HttpService"}, root \in {<<>>, <<"h">>},
          timeout \in {None, PyInt(7)} :
           Construct(kind, root, timeout)
    /\ UNCHANGED <<urlVars, thrVars>>

---------------------------------------------------------------------------
(* make_request and the shortcut methods *)

\* line 96: timeout if timeout else self._timeout
ResolvedTimeout(c, timeout) == IF Truthy(timeout) THEN timeout ELSE c.timeout

\* line 97: auth=self._auth
RequestAuth(c) == c.auth

\* Session.request(..., headers=, auth=): the headers of the request as it
\* leaves, the session's headers under the call's, then the auth's (the
\* call's auth, else the session's)
SentHeaders(session, headers, auth) ==
    LET merged == DictUpdate(session.headers,
                             IF headers = None THEN EmptyDict ELSE headers)
        used   == IF auth # None THEN auth ELSE session.auth
    IN  IF used = None THEN merged ELSE JwtAuthCall(used, merged)

\* a request that stores its auth on the session it goes through
SessionKeepsAuth(session, c) == [session EXCEPT !.auth = c.auth]

\* lines 90-98 leave the session as it was: the auth is an argument of the
\* call, it is not stored on the session
SessionAfterRequest(session, c) == session

\* a check that lets status 300 through
ShouldRaiseAbove(status_code, raise_exception) ==
    status_code > 300 /\ raise_exception

\* line 100: res.status_code >= 300 and raise_exception
ShouldRaise(status_code, raise_exception) ==
    status_code >= 300 /\ raise_exception

\* lines 100-103: raise ServiceException(response=res), or return res
Outcome(res, raise_exception) ==
    IF ShouldRaise(res.status_code, raise_exception)
    THEN [outcome |-> "ServiceException", result |-> res]
    ELSE [outcome |-> "return", result |-> res]

StatusCodes == {299, 300, 404}
Responses == [status_code : StatusCodes, content : {"body"}]

\* make_request, lines 87-103, with res the response the transport gives
MakeRequest(i, method, p, pp, query, data, headers, timeout, flag, res) ==
    LET c      == clients[i]
        params == IF pp = None \/ pp = EmptyDict THEN EmptyDict ELSE pp
        built  == BuildUrl(c.url_root, p, params)
        args   == [method |-> method, timeout |-> timeout, raise_exception |-> flag]
        call   == [NoCall EXCEPT !.op = "make_request", !.who = i, !.args = args]
    IN  IF built.kind # "return"
        THEN /\ last' = [call EXCEPT !.outcome = built.kind]
             /\ UNCHANGED <<svcCache, cliCache, sessions, clients>>
        ELSE IF c.requestor = RequestsRequest
        THEN \* requests.request is a function: it has no attribute request
             /\ last' = [call EXCEPT !.outcome = "AttributeError"]
             /\ UNCHANGED <<svcCache, cliCache, sessions, clients>>
        ELSE LET sid  == c.requestor.id
                 sent == [method |-> method, url |-> built.url,
                          params |-> query, data |-> data,
                          headers |-> SentHeaders(sessions[sid], headers,
                                                  RequestAuth(c)),
                          timeout |-> ResolvedTimeout(c, timeout),
                          session |-> sid]
                 out  == Outcome(res, flag)
             IN  /\ last' = [call EXCEPT !.outcome = out.outcome,
                                         !.sent = sent, !.response = res,
                                         !.result = out.result]
                 /\ sessions' = [sessions EXCEPT
                                    ![sid] = SessionAfterRequest(@, c)]
                 /\ UNCHANGED <<svcCache, cliCache, clients>>

\* the calls made: a path and its path_params
ReqTargets ==
    { [path |-> <<>>, path_params |-> None],
      [path |-> <<"/">>, path_params |-> None],
      [path |-> <<"{", "a", "}">>,
       path_params |-> [k \in {<<"a">>} |-> Str(<<"7">>)]] }
ReqHeaders == {None}
Query == Str(<<"q">>)
Body == Str(<<"d">>)

\* make_request called directly
Request ==
    /\ Ready
    /\ \E i \in 1..Len(clients), t \in ReqTargets, headers \in ReqHeaders,
          timeout \in Timeouts, flag \in BOOLEAN, res \in Responses :
           MakeRequest(i, "OPTIONS", t.path, t.path_params, Query, Body,
                       headers, timeout, flag, res)
    /\ UNCHANGED <<urlVars, thrVars>>

\* get, lines 107-109
Get ==
    /\ Ready
    /\ \E i \in 1..Len(clients), t \in ReqTargets, headers \in ReqHeaders,
          flag \in BOOLEAN, res \in Responses :
           MakeRequest(i, "GET", t.path, t.path_params, Query, None,
                       headers, None, flag, res)
    /\ UNCHANGED <<urlVars, thrVars>>

\* post, lines 111-113
Post ==
    /\ Ready
    /\ \E i \in 1..Len(clients), t \in ReqTargets, headers \in ReqHeaders,
          flag \in BOOLEAN, res \in Responses :
           MakeRequest(i, "POST", t.path, t.path_params, None, Body,
                       headers, None, flag, res)
    /\ UNCHANGED <<urlVars, thrVars>>

\* put, lines 115-117
Put ==
    /\ Ready
    /\ \E i \in 1..Len(clients), t \in ReqTargets, headers \in ReqHeaders,
          flag \in BOOLEAN, res \in Responses :
           MakeRequest(i, "PUT", t.path, t.path_params, None, Body,
                       headers, None, flag, res)
    /\ UNCHANGED <<urlVars, thrVars>>

\* patch, lines 119-121
Patch ==
    /\ Ready
    /\ \E i \in 1..Len(clients), t \in ReqTargets, headers \in ReqHeaders,
          flag \in BOOLEAN, res \in Responses :
           MakeRequest(i, "PATCH", t.path, t.path_params, None, Body,
                       headers, None, flag, res)
    /\ UNCHANGED <<urlVars, thrVars>>

\* delete, lines 123-125
Delete ==
    /\ Ready
    /\ \E i \in 1..Len(clients), t \in ReqTargets, headers \in ReqHeaders,
          flag \in BOOLEAN, res \in Responses :
           MakeRequest(i, "DELETE", t.path, t.path_params, None, None,
                       headers, None, flag, res)
    /\ UNCHANGED <<urlVars, thrVars>>

\* The caller takes what the call returned or raised and goes on: responses
\* and exceptions live for one call.
Discard ==
    /\ last # NoCall
    /\ last' = NoCall
    /\ UNCHANGED <<svcCache, cliCache, sessions, clients>>
    /\ UNCHANGED <<urlVars, thrVars>>

ThreadsIdle ==
    /\ tpc = [t \in {"T1", "T2"} |-> "idle"]
    /\ tcls = [t \in {"T1", "T2"} |-> None]
    /\ tsession = [t \in {"T1", "T2"} |-> None]
    /\ tmissed = [t \in {"T1", "T2"} |-> FALSE]
    /\ tclient = [t \in {"T1", "T2"} |-> 0]
    /\ stores = <<>>

UrlIdle ==
    /\ value = <<"h">>
    /\ path = <<>>
    /\ path_params = EmptyDict
    /\ url_root = None
    /\ url = <<>>
    /\ start = -1
    /\ upc = "construct"

Init == MainInit /\ UrlIdle /\ ThreadsIdle

Next ==
    \/ MakeService
    \/ ConstructDirect
    \/ Request
    \/ Get
    \/ Post
    \/ Put
    \/ Patch
    \/ Delete
    \/ Discard

\* The factories, the clients and their requests, one call after another
Spec == Init /\ [][Next]_vars

UrlSpecInit == UrlInit /\ MainInit /\ ThreadsIdle

\* One client constructed and one _build_url call on it, for every input
UrlSpec == UrlSpecInit /\ [][UrlNext]_vars

\* The same, with the interpreter running the call on as long as it can
UrlLive == UrlSpecInit /\ [][UrlNext]_vars /\ WF_vars(UrlNext)

---------------------------------------------------------------------------
(* Two threads inside make_service / make_client.  The interpreter may     *)
(* switch threads between any two statements, so the method is taken one   *)
(* statement group at a time.                                              *)

Threads == {"T1", "T2"}

CacheFor(cls) == IF cls.kind = "service" THEN svcCache ELSE cliCache

\* the thread's one call starts: cls is the class the factory method is
\* called on
Enter(t) ==
    /\ tpc[t] = "idle"
    /\ \E cls \in Classes : tcls' = [tcls EXCEPT ![t] = cls]
    /\ tpc' = [tpc EXCEPT ![t] = "lookup"]
    /\ tsession' = [tsession EXCEPT ![t] = None]
    /\ tmissed' = [tmissed EXCEPT ![t] = FALSE]
    /\ tclient' = [tclient EXCEPT ![t] = 0]
    /\ UNCHANGED <<stores, mainVars, urlVars>>

\* line 157: session = SessionCache.get(cls.__name__); line 159: if not session
Lookup(t) ==
    /\ tpc[t] = "lookup"
    /\ LET found == CacheGet(CacheFor(tcls[t]), tcls[t].name)
       IN  /\ tsession' = [tsession EXCEPT ![t] = found]
           /\ tmissed' = [tmissed EXCEPT ![t] = ~Truthy(found)]
           /\ tpc' = [tpc EXCEPT ![t] = IF Truthy(found) THEN "finish" ELSE "create"]
    /\ UNCHANGED <<tcls, tclient, stores, mainVars, urlVars>>

\* lines 160-165
Create(t) ==
    /\ tpc[t] = "create"
    /\ sessions' = Append(sessions, NewSession(tcls[t]))
    /\ tsession' = [tsession EXCEPT ![t] = SessionRef(Len(sessions) + 1)]
    /\ tpc' = [tpc EXCEPT ![t] = "store"]
    /\ UNCHANGED <<tcls, tmissed, tclient, stores, svcCache, cliCache, clients,
                   last, urlVars>>

\* line 167: SessionCache.set(cls.__name__, session)
Store(t) ==
    /\ tpc[t] = "store"
    /\ IF tcls[t].kind = "service"
       THEN /\ svcCache' = CacheSet(svcCache, tcls[t].name, tsession[t])
            /\ UNCHANGED cliCache
       ELSE /\ cliCache' = CacheSet(cliCache, tcls[t].name, tsession[t])
            /\ UNCHANGED svcCache
    /\ stores' = Append(stores, [thread |-> t, kind |-> tcls[t].kind,
                                 name |-> tcls[t].name, session |-> tsession[t]])
    /\ tpc' = [tpc EXCEPT ![t] = "finish"]
    /\ UNCHANGED <<tcls, tsession, tmissed, tclient, sessions, clients, last,
                   urlVars>>

\* lines 169-174, with auth_kwargs the argument the call was given
Finish(t) ==
    /\ tpc[t] = "finish"
    /\ \E auth_kwargs \in AuthKwargs :
          LET auth == MakeAuth(tcls[t], auth_kwargs)
              ok   == auth # Raised("TypeError") /\ ~RootRaises(tcls[t].service_root)
          IN  /\ clients' = IF ok
                            THEN Append(clients, FactoryClient(tcls[t], tsession[t], auth))
                            ELSE clients
              /\ tclient' = [tclient EXCEPT ![t] = IF ok THEN Len(clients') ELSE 0]
    /\ tpc' = [tpc EXCEPT ![t] = "done"]
    /\ UNCHANGED <<tcls, tsession, tmissed, stores, svcCache, cliCache, sessions,
                   last, urlVars>>

RaceNext ==
    \/ \E t \in Threads : Enter(t)
    \/ \E t \in Threads : Lookup(t)
    \/ \E t \in Threads : Create(t)
    \/ \E t \in Threads : Store(t)
    \/ \E t \in Threads : Finish(t)

\* The factory method run by two threads at once
RaceSpec == Init /\ [][RaceNext]_vars


---------------------------------------------------------------------------
(* The claims *)

ClassOf(id) == CHOOSE cls \in Classes : cls.id = id

FactoryMade(c) == c.made_by \in {cls.id : cls \in Classes}

Dispatched == last.op = "make_request" /\ last.response # None

\* C1: whenever the transport returned a response, make_request (called
\* directly or through a shortcut) raises the service exception exactly when
\* the status is >= 300 and raise_exception is true, otherwise it returns;
\* the exception or the return value is the very response the transport gave.
C1_RaiseIffErrorStatusAndFlag ==
    Dispatched =>
        /\ last.outcome \in {"ServiceException", "return"}
        /\ (last.outcome = "ServiceException")
              <=> (last.response.status_code >= 300 /\ last.args.raise_exception)
        /\ last.result = last.response

\* C1, its case: a shortcut got a 404 with raising on and raised it
C1_Witness ==
    /\ Dispatched
    /\ last.args.method = "GET"
    /\ last.response.status_code = 404
    /\ last.args.raise_exception
    /\ last.outcome = "ServiceException"

\* C2: two clients returned by the factories are bound to the same session
\* if and only if they were made for the same client type (class).
C2_SameSessionIffSameType ==
    \A i, j \in 1..Len(clients) :
        (FactoryMade(clients[i]) /\ FactoryMade(clients[j])) =>
            ((clients[i].requestor = clients[j].requestor)
                <=> (clients[i].made_by = clients[j].made_by))

\* C3: a placeholder whose name is absent from path_params, or whose value
\* is None, is replaced by the empty string.
C3_MissingParamGivesEmpty ==
    [][(/\ upc = "body"
        /\ EndOf(url, start) >= 0
        /\ DictGet(path_params, Inner(Placeholder(url, start))) = None)
       => (/\ upc' = "while"
           /\ url' = Replace(url, Placeholder(url, start), <<>>))]_vars

\* C4: a client constructed without a session still dispatches: once the
\* URL is built the request is sent and the call ends by returning the
\* response or raising the service exception.
C4_SessionlessClientDispatches ==
    (/\ last.op = "make_request"
     /\ clients[last.who].requestor = RequestsRequest
     /\ last.outcome # "IndexError")
    => (last.sent # None /\ last.outcome \in {"ServiceException", "return"})

\* C5: a request of a factory-made client is sent with the timeout override
\* of the call when one is given, otherwise with the class-level timeout.
C5_FactoryTimeoutUsed ==
    (/\ last.op = "make_request"
     /\ last.sent # None
     /\ FactoryMade(clients[last.who]))
    => last.sent.timeout =
          IF last.args.timeout # None THEN last.args.timeout
          ELSE ClassOf(clients[last.who].made_by).timeout

\* every request of a client that holds an auth carries that client's token
OwnAuthorization ==
    (/\ last.op = "make_request"
     /\ last.sent # None
     /\ clients[last.who].auth # None)
    => /\ "Authorization" \in DOMAIN last.sent.headers
       /\ last.sent.headers["Authorization"]
             = <<"JWT", clients[last.who].auth.token>>

\* no step changes the headers or the auth of a session that exists
SessionsKept ==
    \A s \in 1..Len(sessions) :
        /\ s <= Len(sessions')
        /\ sessions'[s].headers = sessions[s].headers
        /\ sessions'[s].auth = sessions[s].auth

\* C6: each request carries the Authorization value of the client that
\* issued it, also when clients with different tokens share a session, and
\* no factory call and no request changes the default headers or the auth
\* of a session once it exists.
C6_AuthPerClientSessionUntouched ==
    []OwnAuthorization /\ [][SessionsKept]_vars

\* C6, its case: two clients with different tokens share a session, the
\* session still has its own headers and no auth, and one of them has just
\* sent a request
C6_Witness ==
    /\ Len(clients) = 2
    /\ clients[1].requestor = clients[2].requestor
    /\ clients[1].auth # None
    /\ clients[2].auth # None
    /\ clients[1].auth.token # clients[2].auth.token
    /\ last.op = "make_request"
    /\ last.who = 2
    /\ last.sent # None
    /\ last.sent.headers["Authorization"] = <<"JWT", clients[2].auth.token>>
    /\ "Authorization" \notin DOMAIN sessions[last.sent.session].headers

\* the path the claim describes: one leading '/' removed, and one '/' added
\* exactly when what is left is non-empty, does not end with '/', and the
\* template has no '?'
ClaimedPath(p) ==
    LET q == IF p # <<>> /\ p[1] = "/" THEN Tail(p) ELSE p
    IN  IF q # <<>> /\ q[Len(q)] # "/" /\ Find(p, "?", 0) = -1
        THEN q \o <<"/">> ELSE q

\* C7: for every path template _build_url joins the root and the path as
\* ClaimedPath gives it, without an error.
C7_PathJoinedForEveryTemplate ==
    [][upc = "build" =>
          (upc' = "while" /\ url' = url_root.val \o ClaimedPath(path))]_vars

\* C8: every root given to the constructor is stored ending with '/': as it
\* is when it ends with '/', with one '/' appended otherwise.
C8_RootEndsWithSlash ==
    upc # "construct" =>
        /\ upc # "root_IndexError"
        /\ url_root = Str(IF value # <<>> /\ value[Len(value)] = "/"
                          THEN value ELSE value \o <<"/">>)

UrlCallOver ==
    upc \in {"return", "root_IndexError", "path_IndexError", "MemoryError"}

\* C9: the substitution loop terminates, by returning or by raising, and a
\* returned URL contains no '{'.
C9_SubstitutionTerminates ==
    /\ <>UrlCallOver
    /\ [](upc = "return" => Find(url, "{", 0) = -1)

\* two finished calls for one cache key that both found the cache empty
Raced(t, u) ==
    /\ t # u
    /\ tpc[t] = "done" /\ tpc[u] = "done"
    /\ tclient[t] > 0 /\ tclient[u] > 0
    /\ tcls[t].kind = tcls[u].kind
    /\ tcls[t].name = tcls[u].name
    /\ tmissed[t] /\ tmissed[u]

\* the last SessionCache.set for the cache key of cls
LastStore(cls) ==
    LET hits == {k \in 1..Len(stores) :
                    stores[k].kind = cls.kind /\ stores[k].name = cls.name}
    IN  stores[CHOOSE k \in hits : \A m \in hits : m <= k]

\* C10: when two factory calls for one type name both look the cache up
\* before either stores, each makes its own session, the cache holds the
\* one stored last, and the two clients are bound to different sessions,
\* exactly one of which is the cached one.
C10_RaceLastWriterWins ==
    \A t, u \in Threads :
        Raced(t, u) =>
            LET st     == clients[tclient[t]].requestor
                su     == clients[tclient[u]].requestor
                cached == CacheGet(CacheFor(tcls[t]), tcls[t].name)
            IN  /\ st = tsession[t] /\ su = tsession[u]
                /\ st # su
                /\ cached = LastStore(tcls[t]).session
                /\ (cached = st) # (cached = su)

\* C10, its case: T1 stored first, T2 last, and both got their client
C10_Witness ==
    /\ Raced("T1", "T2")
    /\ Len(stores) = 2
    /\ stores[1].thread = "T1"
    /\ stores[2].thread = "T2"
    /\ CacheGet(CacheFor(tcls["T1"]), tcls["T1"].name) = tsession["T2"]
    /\ clients[tclient["T1"]].requestor # tsession["T2"]

=============================================================================
